---- MODULE Spec2Model ----
(***************************************************************************)
(* A model of src/src/rankers.py: cluster_centroid, TextRankRanker.weighting, *)
(* TextRankRanker.ordering and TextRankRanker.cluster_ordering.            *)
(*                                                                         *)
(* A Python string is a sequence of one-character strings, so that split,  *)
(* rsplit, find and len are computed as Python computes them.  A dict is a *)
(* function whose DOMAIN is its key set (first_positions, frequency) or,    *)
(* where the iteration order matters (weights), a sequence of <<key,value>> *)
(* pairs with distinct keys, in iteration order.                           *)
(***************************************************************************)
EXTENDS Integers, Sequences, FiniteSets, TLC

VARIABLES
  isTopic,          \* isinstance(self._textrank.strategy(), TopicRankStrategy)
  criteria,         \* self._ordering_criteria
  context,          \* strategy.context(): the POS-tagged sentences
  token_ids,        \* strategy.token_ids().values(): clusters of tagged terms
  stratClusters,    \* the clusters the strategy holds (set_clusters)
  pc,               \* position of the sequential operation being run
  cluster,          \* the cluster argument of cluster_ordering / cluster_centroid
  centroid,         \* local of cluster_ordering; result of cluster_centroid
  sent_i,           \* index of the next sentence of the scan
  acc,              \* sentence_length_accumulator
  first_positions,  \* dict term -> first offset
  frequency,        \* dict term -> count
  co_result,        \* what cluster_ordering returned or raised
  max_similarity,   \* local of cluster_centroid, as a numerator over len(cluster)
  cc_i,             \* index of the next term1 of the loop of cluster_centroid
  weights,          \* the WeightMap given to ordering
  ord_i,            \* index of the next cluster of the loop of ordering
  ordered_terms,    \* local of ordering
  ord_result,       \* what ordering returned or raised
  wpc,              \* per caller: position inside weighting
  argClusters,      \* per caller: the clusters argument of its invocation
  sawClusters,      \* per caller: the strategy clusters its rank call read
  wresult,          \* per caller: the weighted_candidates it returned
  calls,            \* per caller: invocations started
  serialized,       \* callers serialize their calls on the ranker instance
  setCalls          \* number of set_clusters calls made on the strategy

stratVars == <<isTopic, criteria, context, token_ids, stratClusters>>
coVars    == <<cluster, centroid, sent_i, acc, first_positions, frequency,
               co_result, max_similarity, cc_i>>
ordVars   == <<weights, ord_i, ordered_terms, ord_result>>
wVars     == <<wpc, argClusters, sawClusters, wresult, calls, serialized, setCalls>>
vars      == <<stratVars, pc, coVars, ordVars, wVars>>

----------------------------------------------------------------------------
(* Bounds *)

MaxSentences  == 3    \* sentences of a document given to cluster_ordering
MaxClusterLen == 2    \* members of a cluster given to cluster_ordering
MaxCentroidLen == 3   \* members of a cluster given to cluster_centroid
MaxClusters   == 2    \* clusters of token_ids given to ordering
MaxCalls      == 2    \* weighting invocations per caller
MaxScore      == 1    \* the scores of the candidates are 0..MaxScore

----------------------------------------------------------------------------
(* ORDERING_CRITERIA *)

POSITION  == 0
FREQUENCY == 1
CENTROID  == 2

----------------------------------------------------------------------------
(* Python strings *)

Whitespace == {" "}

\* strategy.tag_separator(): one character here
TagSeparator == "/"

\* the value None, which equals no string
NoneValue == <<"None">>

RECURSIVE SplitFrom(_, _, _, _)
SplitFrom(s, i, cur, out) ==
  IF i > Len(s)
    THEN (IF cur = <<>> THEN out ELSE Append(out, cur))
    ELSE IF s[i] \in Whitespace
      THEN SplitFrom(s, i + 1, <<>>, IF cur = <<>> THEN out ELSE Append(out, cur))
      ELSE SplitFrom(s, i + 1, Append(cur, s[i]), out)

\* s.split(): the maximal runs of non-whitespace characters
Split(s) == SplitFrom(s, 1, <<>>, <<>>)

\* wt.rsplit(sep, 1)[0]: what precedes the last separator, or all of wt
RSplitHead(wt, sep) ==
  LET at == {i \in 1..Len(wt) : wt[i] = sep}
  IN  IF at = {} THEN wt
      ELSE SubSeq(wt, 1, (CHOOSE i \in at : \A j \in at : j <= i) - 1)

\* s.find(t): the lowest index (from 0) where t occurs in s, or -1
Find(s, t) ==
  LET at == {i \in 0..(Len(s) - Len(t)) : SubSeq(s, i + 1, i + Len(t)) = t}
  IN  IF at = {} THEN -1 ELSE CHOOSE i \in at : \A j \in at : i <= j

\* len(t.split())
WordCount(t) == Len(Split(t))

\* the loops "if out != '': out += ' '" followed by "out += w"
RECURSIVE JoinWords(_, _, _)
JoinWords(ws, i, out) ==
  IF i > Len(ws) THEN out
  ELSE JoinWords(ws, i + 1, (IF out # <<>> THEN out \o <<" ">> ELSE out) \o ws[i])

\* the untagging loops of ordering and of cluster_ordering
Untag(s) ==
  LET ws == Split(s)
  IN  JoinWords([i \in 1..Len(ws) |-> RSplitHead(ws[i], TagSeparator)], 1, <<>>)

\* the fake tagging loop of cluster_ordering
FakeTag(term) ==
  LET ws == Split(term)
  IN  JoinWords([i \in 1..Len(ws) |-> ws[i] \o <<TagSeparator>> \o <<"f", "k">>],
                1, <<>>)

\* stemmer.stem(w): a suffix-stripping stemmer, which drops a final "s"
Stem(w) ==
  IF Len(w) > 1 /\ w[Len(w)] = "s" THEN SubSeq(w, 1, Len(w) - 1) ELSE w

pos_tagged_term_stemming(pos_tagged_candidate, tag_separator) ==
  LET ws == Split(pos_tagged_candidate)
  IN  JoinWords([i \in 1..Len(ws) |-> Stem(RSplitHead(ws[i], tag_separator))],
                1, <<>>)

----------------------------------------------------------------------------
(* sorted(): a stable sort of rows [key, val] by key, keys being tuples of *)
(* integers of one length, compared as Python compares tuples              *)

TupleLess(k1, k2) ==
  \E i \in 1..Len(k1) : k1[i] < k2[i] /\ \A j \in 1..(i - 1) : k1[j] = k2[j]

RECURSIVE InsertRow(_, _)
InsertRow(sorted, row) ==
  IF sorted = <<>> THEN <<row>>
  ELSE IF TupleLess(row.key, Head(sorted).key) THEN <<row>> \o sorted
  ELSE <<Head(sorted)>> \o InsertRow(Tail(sorted), row)

RECURSIVE SortRows(_, _, _)
SortRows(rows, i, sorted) ==
  IF i > Len(rows) THEN sorted ELSE SortRows(rows, i + 1, InsertRow(sorted, rows[i]))

Reverse(s) == [i \in 1..Len(s) |-> s[Len(s) + 1 - i]]

\* sorted(rows, key=...)
Sorted(rows) == SortRows(rows, 1, <<>>)

\* sorted(rows, key=..., reverse=True): equal keys keep their order
SortedReverse(rows) == Reverse(Sorted(Reverse(rows)))

Vals(rows) == [i \in 1..Len(rows) |-> rows[i].val]

----------------------------------------------------------------------------
(* dicts *)

EmptyDict == <<>>

HasKey(d, k) == k \in DOMAIN d

DictSet(d, k, v) == [x \in (DOMAIN d) \cup {k} |-> IF x = k THEN v ELSE d[x]]

\* what a call returned (err = "none") or the exception it raised
Returned(v) == [err |-> "none", val |-> v]
Raised(e)   == [err |-> e, val |-> <<>>]
NoResult    == [err |-> "pending", val |-> <<>>]

----------------------------------------------------------------------------
(* cluster_centroid *)

\* line 66 calls simple_word_overlap_similarity, a name the module never
\* binds (it imports math, RankerC, TextRank and TopicRankStrategy only):
\* the call raises NameError and the bare except adds 0.0
TrySimilarity(stem1, stem2) == 0

RECURSIVE SimilaritySum(_, _, _, _)
SimilaritySum(cl, stem1, j, sum) ==
  IF j > Len(cl) THEN sum
  ELSE SimilaritySum(cl, stem1, j + 1,
         sum + TrySimilarity(stem1, pos_tagged_term_stemming(cl[j], TagSeparator)))

\* one iteration of "for term1 in cluster".  similarity and max_similarity
\* are kept as numerators over float(len(cluster)), so -1.0 is -Len(cl)
CentroidStep(cl, term1, st) ==
  LET stem1 == pos_tagged_term_stemming(term1, TagSeparator)
      similarity == SimilaritySum(cl, stem1, 1, 0)
  IN  IF similarity > st.max_similarity
        THEN [max_similarity |-> similarity, centroid |-> term1]
        ELSE st

CentroidStart(cl) == [max_similarity |-> -Len(cl), centroid |-> NoneValue]

RECURSIVE CentroidLoop(_, _, _)
CentroidLoop(cl, i, st) ==
  IF i > Len(cl) THEN st ELSE CentroidLoop(cl, i + 1, CentroidStep(cl, cl[i], st))

cluster_centroid(cl) == CentroidLoop(cl, 1, CentroidStart(cl)).centroid

----------------------------------------------------------------------------
(* cluster_ordering *)

\* "centroid calculation": fake tagging, cluster_centroid, mapping back
RECURSIVE MapBack(_, _, _, _, _)
MapBack(cl, fake, tagged_centroid, i, cen) ==
  IF i > Len(cl) THEN cen
  ELSE MapBack(cl, fake, tagged_centroid, i + 1,
               IF fake[i] = tagged_centroid THEN cl[i] ELSE cen)

CentroidOf(cl) ==
  LET fake == [i \in 1..Len(cl) |-> FakeTag(cl[i])]
  IN  MapBack(cl, fake, cluster_centroid(fake), 1, <<>>)

\* "for term in cluster" within one sentence
RECURSIVE ScanTerms(_, _, _, _, _)
ScanTerms(cl, i, untagged_sentence, accu, st) ==
  IF i > Len(cl) THEN st
  ELSE
    LET term == cl[i]
        pos  == Find(untagged_sentence, term)
        fp   == IF pos >= 0 /\ ~HasKey(st.first_positions, term)
                  THEN DictSet(st.first_positions, term, accu + (pos + 1))
                  ELSE st.first_positions
        fq0  == IF pos >= 0 /\ ~HasKey(st.frequency, term)
                  THEN DictSet(st.frequency, term, 0)
                  ELSE st.frequency
        fq   == IF pos >= 0 THEN DictSet(fq0, term, fq0[term] + 1) ELSE fq0
    IN  ScanTerms(cl, i + 1, untagged_sentence, accu,
                  [first_positions |-> fp, frequency |-> fq])

\* one iteration of "for sentence in text"
ScanSentence(cl, sentence, st) ==
  LET untagged_sentence == Untag(sentence)
      seen == ScanTerms(cl, 1, untagged_sentence, st.acc,
                        [first_positions |-> st.first_positions,
                         frequency |-> st.frequency])
  IN  [acc |-> st.acc + Len(untagged_sentence),
       first_positions |-> seen.first_positions,
       frequency |-> seen.frequency]

ScanStart == [acc |-> 0, first_positions |-> EmptyDict, frequency |-> EmptyDict]

RECURSIVE ScanLoop(_, _, _, _)
ScanLoop(cl, text, i, st) ==
  IF i > Len(text) THEN st ELSE ScanLoop(cl, text, i + 1, ScanSentence(cl, text[i], st))

\* variants of the sort keys: no tie-break on the word count; descending count
PositionKeyNoTieBreak(t, fp) == <<fp[t], 0>>
FrequencyKeyDescending(t, fq) == <<-1 * fq[t], -1 * WordCount(t)>>

\* the sort keys of the three criteria
PositionKey(t, fp)   == <<fp[t], -1 * WordCount(t)>>
FrequencyKey(t, fq)  == <<fq[t], -1 * WordCount(t)>>
CentroidKey(t, cen)  == <<IF t # cen THEN 1 ELSE 0, -1 * WordCount(t)>>

GetOr(d, k, default) == IF HasKey(d, k) THEN d[k] ELSE default

\* a variant that reads the maps with a default of 0 instead of d[k]
SortClusterDefaulting(cl, crit, fp, fq, cen) ==
  Returned(Vals(Sorted([i \in 1..Len(cl) |->
    [key |-> IF crit = POSITION THEN <<GetOr(fp, cl[i], 0), -1 * WordCount(cl[i])>>
             ELSE IF crit = FREQUENCY THEN <<GetOr(fq, cl[i], 0), -1 * WordCount(cl[i])>>
             ELSE <<IF cl[i] # cen THEN 1 ELSE 0, -1 * WordCount(cl[i])>>,
     val |-> cl[i]]])))

\* the final "if self._ordering_criteria == ..." of cluster_ordering
SortCluster(cl, crit, fp, fq, cen) ==
  IF crit = POSITION THEN
    IF \E i \in 1..Len(cl) : ~HasKey(fp, cl[i]) THEN Raised("KeyError")
    ELSE Returned(Vals(Sorted([i \in 1..Len(cl) |->
                    [key |-> PositionKey(cl[i], fp), val |-> cl[i]]])))
  ELSE IF crit = FREQUENCY THEN
    IF \E i \in 1..Len(cl) : ~HasKey(fq, cl[i]) THEN Raised("KeyError")
    ELSE Returned(Vals(Sorted([i \in 1..Len(cl) |->
                    [key |-> FrequencyKey(cl[i], fq), val |-> cl[i]]])))
  ELSE
    Returned(Vals(Sorted([i \in 1..Len(cl) |->
                    [key |-> CentroidKey(cl[i], cen), val |-> cl[i]]])))

\* the whole of cluster_ordering, as ordering calls it
cluster_ordering(cl, text, crit) ==
  LET st == ScanLoop(cl, text, 1, ScanStart)
  IN  SortCluster(cl, crit, st.first_positions, st.frequency, CentroidOf(cl))

----------------------------------------------------------------------------
(* Inputs *)

SeqsUpTo(S, n) == UNION {[1..k -> S] : k \in 0..n}

\* untagged candidate phrases: "a", "b", "a b"
Phrases == { <<"a">>, <<"b">>, <<"a", " ", "b">> }

\* POS-tagged sentences: "a/t b/a", "b/a", " a/t" (untagged "a b", "b", "a")
Sentences == { <<"a", "/", "t", " ", "b", "/", "a">>,
               <<"b", "/", "a">>,
               <<" ", "a", "/", "t">> }

\* POS-tagged terms given to cluster_centroid: "c/t", "a/t", "as/t b/t"
TaggedTerms == { <<"c", "/", "t">>, <<"a", "/", "t">>,
                 <<"a", "s", "/", "t", " ", "b", "/", "t">> }

Callers == {1, 2}

\* the values of the variables an operation does not use
IdleStrategy ==
  /\ isTopic = TRUE /\ criteria = POSITION /\ context = <<>>
  /\ token_ids = <<>> /\ stratClusters = <<>>
IdleClusterOrdering ==
  /\ cluster = <<>> /\ centroid = <<>> /\ sent_i = 1 /\ acc = 0
  /\ first_positions = EmptyDict /\ frequency = EmptyDict
  /\ co_result = NoResult /\ max_similarity = 0 /\ cc_i = 1
IdleOrdering ==
  /\ weights = <<>> /\ ord_i = 1 /\ ordered_terms = <<>> /\ ord_result = NoResult
IdleWeighting ==
  /\ wpc = [c \in Callers |-> "idle"]
  /\ argClusters = [c \in Callers |-> <<>>]
  /\ sawClusters = [c \in Callers |-> <<>>]
  /\ wresult = [c \in Callers |-> <<>>]
  /\ calls = [c \in Callers |-> 0]
  /\ serialized = TRUE
  /\ setCalls = 0

----------------------------------------------------------------------------
(* SpecCluster: one call of cluster_ordering, sentence by sentence *)

InitCluster ==
  /\ isTopic = TRUE
  /\ criteria \in {POSITION, FREQUENCY, CENTROID}
  /\ context \in SeqsUpTo(Sentences, MaxSentences)
  /\ token_ids = <<>> /\ stratClusters = <<>>
  /\ pc = "co_centroid"
  /\ cluster \in SeqsUpTo(Phrases, MaxClusterLen)
  /\ centroid = <<>> /\ sent_i = 1 /\ acc = 0
  /\ first_positions = EmptyDict /\ frequency = EmptyDict
  /\ co_result = NoResult /\ max_similarity = 0 /\ cc_i = 1
  /\ IdleOrdering /\ IdleWeighting

\* lines 236-251
CO_Centroid ==
  /\ pc = "co_centroid"
  /\ centroid' = CentroidOf(cluster)
  /\ pc' = "co_scan"
  /\ UNCHANGED <<stratVars, cluster, sent_i, acc, first_positions, frequency,
                 co_result, max_similarity, cc_i, ordVars, wVars>>

\* lines 254-275, one sentence
CO_Scan ==
  /\ pc = "co_scan"
  /\ sent_i <= Len(context)
  /\ LET st == ScanSentence(cluster, context[sent_i],
                 [acc |-> acc, first_positions |-> first_positions,
                  frequency |-> frequency])
     IN  /\ acc' = st.acc
         /\ first_positions' = st.first_positions
         /\ frequency' = st.frequency
  /\ sent_i' = sent_i + 1
  /\ UNCHANGED <<stratVars, pc, cluster, centroid, co_result, max_similarity, cc_i,
                 ordVars, wVars>>

\* lines 277-286
CO_Sort ==
  /\ pc = "co_scan"
  /\ sent_i > Len(context)
  /\ co_result' = SortCluster(cluster, criteria, first_positions, frequency, centroid)
  /\ pc' = "co_done"
  /\ UNCHANGED <<stratVars, cluster, centroid, sent_i, acc, first_positions, frequency,
                 max_similarity, cc_i, ordVars, wVars>>

NextCluster == CO_Centroid \/ CO_Scan \/ CO_Sort

SpecCluster == InitCluster /\ [][NextCluster]_vars

----------------------------------------------------------------------------
(* SpecCentroid: one call of cluster_centroid, member by member *)

InitCentroid ==
  /\ IdleStrategy
  /\ pc = "cc_loop"
  /\ cluster \in SeqsUpTo(TaggedTerms, MaxCentroidLen)
  /\ centroid = CentroidStart(cluster).centroid
  /\ max_similarity = CentroidStart(cluster).max_similarity
  /\ cc_i = 1
  /\ sent_i = 1 /\ acc = 0
  /\ first_positions = EmptyDict /\ frequency = EmptyDict /\ co_result = NoResult
  /\ IdleOrdering /\ IdleWeighting

\* lines 58-73, one term1
CC_Step ==
  /\ pc = "cc_loop"
  /\ cc_i <= Len(cluster)
  /\ LET st == CentroidStep(cluster, cluster[cc_i],
                 [max_similarity |-> max_similarity, centroid |-> centroid])
     IN  /\ max_similarity' = st.max_similarity
         /\ centroid' = st.centroid
  /\ cc_i' = cc_i + 1
  /\ UNCHANGED <<stratVars, pc, cluster, sent_i, acc, first_positions, frequency,
                 co_result, ordVars, wVars>>

\* line 75
CC_Return ==
  /\ pc = "cc_loop"
  /\ cc_i > Len(cluster)
  /\ pc' = "cc_done"
  /\ UNCHANGED <<stratVars, coVars, ordVars, wVars>>

NextCentroid == CC_Step \/ CC_Return

SpecCentroid == InitCentroid /\ [][NextCentroid]_vars

----------------------------------------------------------------------------
(* ordering *)

HasWeight(w, k) == \E i \in 1..Len(w) : w[i][1] = k

\* weights[k]
WeightOf(w, k) == w[CHOOSE i \in 1..Len(w) : w[i][1] = k][2]

ScoreRows(pairs) == [i \in 1..Len(pairs) |-> [key |-> <<pairs[i][2]>>, val |-> pairs[i]]]

\* a variant that sorts without reverse=True
ByScoreAscending(pairs) == Vals(Sorted(ScoreRows(pairs)))

\* sorted(..., key=score, reverse=True)
ByScoreDescending(pairs) == Vals(SortedReverse(ScoreRows(pairs)))

\* lines 193-205: the untagged terms of a cluster
UntaggedCluster(tagged_cluster) ==
  [i \in 1..Len(tagged_cluster) |-> Untag(tagged_cluster[i])]

\* a variant that pairs a phrase absent from the weights with the weight 0
ClusterKeyphraseDefaultWeight(tagged_cluster, text, crit, w) ==
  LET ordered == cluster_ordering(UntaggedCluster(tagged_cluster), text, crit)
  IN  IF ordered.err # "none" THEN Raised(ordered.err)
      ELSE IF ordered.val = <<>> THEN Raised("IndexError")
      ELSE Returned(<<ordered.val[1],
                      IF HasWeight(w, ordered.val[1]) THEN WeightOf(w, ordered.val[1])
                      ELSE 0>>)

\* lines 193-212, one cluster: its (cluster_keyphrase, cluster_score), or the
\* KeyError of cluster_ordering, the IndexError of untagged_cluster[0] on an
\* empty cluster, the KeyError of weights[...]
ClusterKeyphrase(tagged_cluster, text, crit, w) ==
  LET ordered == cluster_ordering(UntaggedCluster(tagged_cluster), text, crit)
  IN  IF ordered.err # "none" THEN Raised(ordered.err)
      ELSE IF ordered.val = <<>> THEN Raised("IndexError")
      ELSE IF ~HasWeight(w, ordered.val[1]) THEN Raised("KeyError")
      ELSE Returned(<<ordered.val[1], WeightOf(w, ordered.val[1])>>)

\* the candidates, in one fixed order
PhraseOrder == << <<"a">>, <<"b">>, <<"a", " ", "b">> >>

\* the dict holding PhraseOrder[i] -> f[i] for the i with f[i] >= 0
DictOf(f) ==
  SelectSeq([i \in 1..Len(PhraseOrder) |-> <<PhraseOrder[i], f[i]>>],
            LAMBDA r : r[2] >= 0)

\* WeightMaps, one iteration order each
WeightMaps == {DictOf(f) : f \in [1..Len(PhraseOrder) -> -1..MaxScore]}

\* WeightMaps in every iteration order
OrderedWeightMaps ==
  {w \in SeqsUpTo(Phrases \X (0..MaxScore), Cardinality(Phrases)) :
     \A i, j \in 1..Len(w) : i # j => w[i][1] # w[j][1]}

\* clusters of POS-tagged terms: [], ["a/t", "a/t b/t"], ["b/t", "a/x"], ["b/t"]
ClusterPool ==
  { <<>>,
    << <<"a", "/", "t">>, <<"a", "/", "t", " ", "b", "/", "t">> >>,
    << <<"b", "/", "t">>, <<"a", "/", "x">> >>,
    << <<"b", "/", "t">> >> }

\* documents: none, "a/t b/a", and "b/a", " a/t", "a/t b/a"
OrdContexts ==
  { <<>>,
    << <<"a", "/", "t", " ", "b", "/", "a">> >>,
    << <<"b", "/", "a">>, <<" ", "a", "/", "t">>,
       <<"a", "/", "t", " ", "b", "/", "a">> >> }

InitOrdering ==
  /\ criteria \in {POSITION, FREQUENCY, CENTROID}
  /\ stratClusters = <<>>
  /\ \/ /\ isTopic = FALSE
        /\ token_ids = <<>> /\ context = <<>>
        /\ weights \in OrderedWeightMaps
     \/ /\ isTopic = TRUE
        /\ token_ids \in SeqsUpTo(ClusterPool, MaxClusters)
        /\ context \in OrdContexts
        /\ weights \in WeightMaps
  /\ pc = "ord_start"
  /\ ord_i = 1 /\ ordered_terms = <<>> /\ ord_result = NoResult
  /\ IdleClusterOrdering /\ IdleWeighting

\* lines 183-186 and 217
O_Flat ==
  /\ pc = "ord_start"
  /\ ~isTopic
  /\ ordered_terms' = ByScoreDescending(weights)
  /\ ord_result' = Returned(ordered_terms')
  /\ pc' = "ord_done"
  /\ UNCHANGED <<stratVars, coVars, weights, ord_i, wVars>>

\* lines 191-212, one cluster
O_Cluster ==
  /\ pc = "ord_start"
  /\ isTopic
  /\ ord_i <= Len(token_ids)
  /\ LET r == ClusterKeyphrase(token_ids[ord_i], context, criteria, weights)
     IN  IF r.err = "none"
           THEN /\ ordered_terms' = Append(ordered_terms, r.val)
                /\ ord_i' = ord_i + 1
                /\ UNCHANGED <<pc, ord_result>>
           ELSE /\ ord_result' = r
                /\ pc' = "ord_done"
                /\ UNCHANGED <<ordered_terms, ord_i>>
  /\ UNCHANGED <<stratVars, coVars, weights, wVars>>

\* lines 213-217
O_Sort ==
  /\ pc = "ord_start"
  /\ isTopic
  /\ ord_i > Len(token_ids)
  /\ ordered_terms' = ByScoreDescending(ordered_terms)
  /\ ord_result' = Returned(ordered_terms')
  /\ pc' = "ord_done"
  /\ UNCHANGED <<stratVars, coVars, weights, ord_i, wVars>>

NextOrdering == O_Flat \/ O_Cluster \/ O_Sort

SpecOrdering == InitOrdering /\ [][NextOrdering]_vars

----------------------------------------------------------------------------
(* weighting *)

\* the clusters arguments of the documents: [], [c] for the non-empty c of ClusterPool
ClusterArgs == SeqsUpTo(ClusterPool \ {<<>>}, 1)

\* what the engine's rank may return: nothing, one candidate, a candidate twice
Rankings ==
  { <<>>,
    << <<<<"a">>, 1>> >>,
    << <<<<"a">>, 1>>, <<<<"b">>, 0>>, <<<<"a">>, 0>> >> }

\* lines 161-164: later pairs of the ranking overwrite earlier ones.  The
\* iteration order of the dict is unspecified; the order of first insertion
\* stands for it here, and ordering is given the dicts in every order
RECURSIVE DictFromRanking(_, _, _)
DictFromRanking(ranking, i, d) ==
  IF i > Len(ranking) THEN d
  ELSE DictFromRanking(ranking, i + 1,
         IF HasWeight(d, ranking[i][1])
           THEN [k \in 1..Len(d) |->
                   IF d[k][1] = ranking[i][1] THEN ranking[i] ELSE d[k]]
           ELSE Append(d, ranking[i]))

\* a variant of the test of line 158 that holds of every strategy
AnyStrategy == TRUE

\* line 158: isinstance(self._textrank.strategy(), TopicRankStrategy)
IsClusterAware == isTopic

\* the caller's discipline: one invocation at a time on a ranker instance
MayEnter(c) == serialized => \A d \in Callers \ {c} : wpc[d] = "idle"

\* the call: weighting(pre_processed_file, candidates, clusters)
W_Call(c) ==
  /\ wpc[c] = "idle"
  /\ calls[c] < MaxCalls
  /\ MayEnter(c)
  /\ \E cl \in ClusterArgs : argClusters' = [argClusters EXCEPT ![c] = cl]
  /\ calls' = [calls EXCEPT ![c] = @ + 1]
  /\ wpc' = [wpc EXCEPT ![c] = "called"]
  /\ UNCHANGED <<stratVars, pc, coVars, ordVars, sawClusters, wresult, serialized,
                 setCalls>>

\* a variant that goes on to rank without injecting the clusters
W_InjectNothing(c) ==
  /\ wpc[c] = "called"
  /\ wpc' = [wpc EXCEPT ![c] = "rank"]
  /\ UNCHANGED <<stratVars, pc, coVars, ordVars, argClusters, sawClusters, wresult,
                 calls, serialized, setCalls>>

\* lines 158-159
W_Inject(c) ==
  /\ wpc[c] = "called"
  /\ IF IsClusterAware
       THEN /\ stratClusters' = argClusters[c]
            /\ setCalls' = setCalls + 1
       ELSE UNCHANGED <<stratClusters, setCalls>>
  /\ wpc' = [wpc EXCEPT ![c] = "rank"]
  /\ UNCHANGED <<isTopic, criteria, context, token_ids, pc, coVars, ordVars,
                 argClusters, sawClusters, wresult, calls, serialized>>

\* lines 160-164: the engine ranks with the clusters the strategy holds
W_Rank(c) ==
  /\ wpc[c] = "rank"
  /\ sawClusters' = [sawClusters EXCEPT ![c] = stratClusters]
  /\ \E ranking \in Rankings :
       wresult' = [wresult EXCEPT ![c] = DictFromRanking(ranking, 1, <<>>)]
  /\ wpc' = [wpc EXCEPT ![c] = "return"]
  /\ UNCHANGED <<stratVars, pc, coVars, ordVars, argClusters, calls, serialized,
                 setCalls>>

\* line 166: the locals of the invocation are gone
W_Return(c) ==
  /\ wpc[c] = "return"
  /\ wpc' = [wpc EXCEPT ![c] = "idle"]
  /\ argClusters' = [argClusters EXCEPT ![c] = <<>>]
  /\ sawClusters' = [sawClusters EXCEPT ![c] = <<>>]
  /\ wresult' = [wresult EXCEPT ![c] = <<>>]
  /\ UNCHANGED <<stratVars, pc, coVars, ordVars, calls, serialized, setCalls>>

InitWeighting ==
  /\ isTopic \in BOOLEAN
  /\ criteria = POSITION
  /\ context = <<>> /\ token_ids = <<>>
  /\ stratClusters \in ClusterArgs
  /\ pc = "weighting"
  /\ IdleClusterOrdering /\ IdleOrdering
  /\ wpc = [c \in Callers |-> "idle"]
  /\ argClusters = [c \in Callers |-> <<>>]
  /\ sawClusters = [c \in Callers |-> <<>>]
  /\ wresult = [c \in Callers |-> <<>>]
  /\ calls = [c \in Callers |-> 0]
  /\ setCalls = 0

\* Spec: the single-threaded pipeline, one caller invoking weighting for one
\* document after the other
Init == InitWeighting /\ serialized = TRUE

Next == W_Call(1) \/ W_Inject(1) \/ W_Rank(1) \/ W_Return(1)

Spec == Init /\ [][Next]_vars

\* SpecConc: two callers on one ranker instance, serialized or not
InitConc == InitWeighting /\ serialized \in BOOLEAN

NextConc == \E c \in Callers : W_Call(c) \/ W_Inject(c) \/ W_Rank(c) \/ W_Return(c)

SpecConc == InitConc /\ [][NextConc]_vars

----------------------------------------------------------------------------
(* What the claims speak of, stated without the scan of cluster_ordering *)

Members(cl) == {cl[i] : i \in 1..Len(cl)}

Occurrences(cl, t) == Cardinality({i \in 1..Len(cl) : cl[i] = t})

IsPermutation(s, cl) ==
  /\ Len(s) = Len(cl)
  /\ \A t \in Members(s) \cup Members(cl) : Occurrences(s, t) = Occurrences(cl, t)

MatchesAt(s, t, i) == i + Len(t) <= Len(s) /\ SubSeq(s, i + 1, i + Len(t)) = t

Occurs(s, t) == \E i \in 0..Len(s) : MatchesAt(s, t, i)

\* the sentences whose untagged text contains t
Matching(t) == {k \in 1..Len(context) : Occurs(Untag(context[k]), t)}

RECURSIVE UntaggedLengthBefore(_)
UntaggedLengthBefore(k) ==
  IF k <= 1 THEN 0 ELSE UntaggedLengthBefore(k - 1) + Len(Untag(context[k - 1]))

ExpectedFirstPosition(t) ==
  LET k == CHOOSE x \in Matching(t) : \A y \in Matching(t) : x <= y
      s == Untag(context[k])
      m == CHOOSE i \in 0..Len(s) :
             MatchesAt(s, t, i) /\ \A j \in 0..(i - 1) : ~MatchesAt(s, t, j)
  IN  UntaggedLengthBefore(k) + m + 1

ScanDone == pc = "co_done" \/ (pc = "co_scan" /\ sent_i > Len(context))

OrderingReturned == pc = "co_done" /\ co_result.err = "none"

\* the word-overlap similarity the centroid is documented to rest on: the
\* number of stems two stemmed phrases share
simple_word_overlap_similarity(stem1, stem2) ==
  Cardinality(Members(Split(stem1)) \cap Members(Split(stem2)))

RECURSIVE OverlapSum(_, _, _)
OverlapSum(cl, i, j) ==
  IF j > Len(cl) THEN 0
  ELSE simple_word_overlap_similarity(pos_tagged_term_stemming(cl[i], TagSeparator),
                                      pos_tagged_term_stemming(cl[j], TagSeparator))
       + OverlapSum(cl, i, j + 1)

\* the first member whose average overlap with all members is greatest
MostSimilarMember(cl) ==
  IF cl = <<>> THEN NoneValue
  ELSE cl[CHOOSE i \in 1..Len(cl) :
            /\ \A j \in 1..Len(cl) : OverlapSum(cl, j, 1) <= OverlapSum(cl, i, 1)
            /\ \A j \in 1..(i - 1) : OverlapSum(cl, j, 1) < OverlapSum(cl, i, 1)]

----------------------------------------------------------------------------
(* Claims on cluster_centroid and cluster_ordering *)

\* C3: cluster_centroid returns the first member whose average word-overlap
\* similarity to all members is greatest (None for an empty cluster, the
\* single member of a singleton).
C3_CentroidIsMostSimilar ==
  pc = "cc_done" => centroid = MostSimilarMember(cluster)

\* C4: under POSITION, when every member occurs in the document, the result
\* is a permutation of the cluster, ascending by first-occurrence offset, and
\* of two members with one offset the one with more words comes first.
C4_PositionOrder ==
  (pc = "co_done" /\ criteria = POSITION
     /\ \A t \in Members(cluster) : Matching(t) # {})
  => /\ co_result.err = "none"
     /\ IsPermutation(co_result.val, cluster)
     /\ \A i, j \in 1..Len(co_result.val) :
          i < j =>
            LET pi == ExpectedFirstPosition(co_result.val[i])
                pj == ExpectedFirstPosition(co_result.val[j])
            IN  /\ pi <= pj
                /\ pi = pj => WordCount(co_result.val[i]) >= WordCount(co_result.val[j])

\* "a" and "a b" both first occur at offset 1 of "a b": "a b" is moved first
C4_Witness ==
  /\ pc = "co_done" /\ criteria = POSITION /\ co_result.err = "none"
  /\ cluster = << <<"a">>, <<"a", " ", "b">> >>
  /\ co_result.val = << <<"a", " ", "b">>, <<"a">> >>
  /\ first_positions[<<"a">>] = first_positions[<<"a", " ", "b">>]

\* C5: under FREQUENCY the member with the greatest occurrence count is at
\* index 0 of the returned list.
C5_MostFrequentFirst ==
  (OrderingReturned /\ criteria = FREQUENCY /\ cluster # <<>>)
  => \A t \in Members(cluster) : frequency[t] <= frequency[co_result.val[1]]

C7_MissingMemberAlwaysFails ==
  pc = "co_done" =>
    \A t \in Members(cluster) :
      Matching(t) = {} =>
        /\ ~HasKey(first_positions, t) /\ ~HasKey(frequency, t)
        /\ co_result.err = "KeyError"

\* C7 amended: a member found in no sentence has no entry in either map;
\* under POSITION and FREQUENCY cluster_ordering raises KeyError, and under
\* CENTROID, which reads neither map, it returns an ordering of the cluster.
C7_MissingMemberFailsWhereRead ==
  pc = "co_done" =>
    \A t \in Members(cluster) :
      Matching(t) = {} =>
        /\ ~HasKey(first_positions, t) /\ ~HasKey(frequency, t)
        /\ criteria \in {POSITION, FREQUENCY} => co_result.err = "KeyError"
        /\ criteria = CENTROID =>
             co_result.err = "none" /\ IsPermutation(co_result.val, cluster)

\* "b" occurs in no sentence of a non-empty document and the call raises
C7_Witness ==
  /\ pc = "co_done" /\ criteria = FREQUENCY /\ context # <<>>
  /\ <<"b">> \in Members(cluster) /\ Matching(<<"b">>) = {}
  /\ <<"a">> \in Members(cluster) /\ Matching(<<"a">>) # {}
  /\ co_result.err = "KeyError"

\* C8: after the scan, every member that occurs in some untagged sentence
\* has as first position the untagged length of the sentences before the
\* first one containing it, plus the index of its first match there, plus 1,
\* and as frequency the number of sentences containing it.
C8_ScanRecords ==
  ScanDone =>
    \A t \in Members(cluster) :
      Matching(t) # {} =>
        /\ HasKey(first_positions, t)
        /\ first_positions[t] = ExpectedFirstPosition(t)
        /\ HasKey(frequency, t)
        /\ frequency[t] = Cardinality(Matching(t))

----------------------------------------------------------------------------
(* Claims on ordering *)

OrderingDone == pc = "ord_done" /\ ord_result.err = "none"

UntaggedMembers(tagged_cluster) == Members(UntaggedCluster(tagged_cluster))

\* C1: the sequence ordering returns has non-increasing scores, on the path
\* of all weighted candidates (which it returns, each once) and on the path
\* of one representative per cluster.
C1_ScoresNonIncreasing ==
  /\ OrderingDone =>
       \A i \in 1..(Len(ord_result.val) - 1) :
         ord_result.val[i][2] >= ord_result.val[i + 1][2]
  /\ (pc = "ord_done" /\ ~isTopic) =>
       ord_result.err = "none" /\ IsPermutation(ord_result.val, weights)

\* two clusters whose representatives are returned in the other order, the
\* second cluster's having the greater score
C1_Witness ==
  /\ OrderingDone /\ isTopic /\ Len(token_ids) = 2
  /\ Len(ord_result.val) = 2
  /\ ord_result.val[1][2] > ord_result.val[2][2]
  /\ ord_result.val[1][1] \notin UntaggedMembers(token_ids[1])
  /\ ord_result.val[1][1] \in UntaggedMembers(token_ids[2])

\* C2: on the cluster-aware path the result has one entry per cluster of
\* token_ids, each the tag-stripped form of a member of its cluster paired
\* with that phrase's weight in the WeightMap.
C2_OnePerCluster ==
  (OrderingDone /\ isTopic) =>
    /\ Len(ord_result.val) = Len(token_ids)
    /\ \E p \in [1..Len(token_ids) -> 1..Len(token_ids)] :
         /\ \A i, j \in 1..Len(token_ids) : i # j => p[i] # p[j]
         /\ \A i \in 1..Len(token_ids) :
              /\ ord_result.val[i][1] \in UntaggedMembers(token_ids[p[i]])
              /\ HasWeight(weights, ord_result.val[i][1])
              /\ ord_result.val[i][2] = WeightOf(weights, ord_result.val[i][1])

\* the representative "a b" of ["a/t", "a/t b/t"] is not its first member,
\* and the tag x of "a/x" is stripped from the other representative
C2_Witness ==
  /\ OrderingDone /\ isTopic /\ Len(token_ids) = 2
  /\ token_ids[1] = << <<"a", "/", "t">>, <<"a", "/", "t", " ", "b", "/", "t">> >>
  /\ token_ids[2] = << <<"b", "/", "t">>, <<"a", "/", "x">> >>
  /\ \E i, j \in 1..2 :
       /\ ord_result.val[i][1] = <<"a", " ", "b">>
       /\ ord_result.val[j][1] = <<"a">>

----------------------------------------------------------------------------
(* Claims on weighting *)

\* C9: with a cluster-aware strategy every invocation calls set_clusters
\* with its clusters before rank, so rank observes the clusters of its own
\* invocation; with any other strategy set_clusters is never called and the
\* clusters the strategy holds never change.
C9_InjectBeforeRank ==
  /\ [](\A c \in Callers :
          /\ (isTopic /\ wpc[c] = "rank") =>
               setCalls = calls[c] /\ stratClusters = argClusters[c]
          /\ (isTopic /\ wpc[c] = "return") =>
               setCalls = calls[c] /\ sawClusters[c] = argClusters[c]
          /\ ~isTopic => setCalls = 0)
  /\ [][~isTopic => stratClusters' = stratClusters]_vars

\* the rank of a second invocation has read the clusters of that invocation,
\* which are not those the strategy held at first
C9_Witness ==
  /\ isTopic /\ wpc[1] = "return" /\ calls[1] = 2 /\ setCalls = 2
  /\ argClusters[1] # <<>>
  /\ sawClusters[1] = argClusters[1]

\* C10: when the invocations on a ranker instance are serialized, no rank
\* call runs or has run with clusters other than those of its own invocation
\* (unserialized, C10_Witness is the interleaving where one does).
C10_SerializedIsSafe ==
  (serialized /\ isTopic) =>
    \A c \in Callers :
      /\ wpc[c] = "rank" => stratClusters = argClusters[c]
      /\ wpc[c] = "return" => sawClusters[c] = argClusters[c]

\* unserialized: the rank call of caller 1 has read the clusters caller 2
\* injected for another document, caller 2 being still inside its invocation
C10_Witness ==
  /\ ~serialized /\ isTopic
  /\ wpc[1] = "return" /\ wpc[2] \in {"rank", "return"}
  /\ argClusters[1] # argClusters[2]
  /\ sawClusters[1] = argClusters[2]

====
